---- MODULE Spec2Model ----
(***************************************************************************)
(* Location-aware visibility of listings and announcements in the        *)
(* islalist backend (backend/api).  The location directory (Province,    *)
(* Municipality, Barangay), the content store (Listing, Announcement)    *)
(* and the two list handlers, ListingViewSet.get_queryset and            *)
(* AnnouncementViewSet.get_queryset, are modelled from the source, with   *)
(* the write handlers of ListingViewSet, the moderator views of           *)
(* views_mod.py and the cascades of the directory's foreign keys.         *)
(***************************************************************************)
EXTENDS Integers, FiniteSets, Sequences, TLC

VARIABLES provinces, municipalities, barangays, listings, announcements,
          today, request, response, answers, calls, command

vars == <<provinces, municipalities, barangays, listings, announcements,
          today, request, response, answers, calls, command>>

(***************************************************************************)
(* Values                                                                  *)
(***************************************************************************)

\* A null foreign key or a null date (None in a model field).
NULL == "NULL"

\* A query parameter the request does not carry (query_params.get gives None).
ABSENT == "ABSENT"

\* No request has been received, and none answered.
NoRequest == [view |-> "none"]

NoResponse == [status |-> 0, results |-> {}]

\* A nullable column whose values are compared by order (a date, a price)
\* holds the empty set for null and the set of its value otherwise, so that
\* a comparison with null holds of no value, as in SQL.
NoValue == {}

Value(v) == {v}

\* Bounds of the model.
MaxListings == 1
MaxAnnouncements == 1
MaxDay == 3
MaxAnswers == 2
MaxCalls == 2
MaxSwept == 2

\* The rows of the location directory the model starts from: two provinces,
\* two municipalities of the first one, two barangays of the first
\* municipality, each with its PSGC code.
ProvinceRows ==
  [P1 |-> [psgc_code |-> "112300000"],
   P2 |-> [psgc_code |-> "118200000"]]

MunicipalityRows ==
  [M1 |-> [psgc_code |-> "112314000", province |-> "P1"],
   M2 |-> [psgc_code |-> "112302000", province |-> "P1"]]

BarangayRows ==
  [B1 |-> [psgc_code |-> "112314001", municipality |-> "M1"],
   B2 |-> [psgc_code |-> "112314002", municipality |-> "M1"]]

\* Listing.STATUS_CHOICES, as far as the handlers tell them apart.
ListingStatus == {"active", "sold"}

\* The prices of the model; Listing.price is nullable.
Prices == {NoValue, Value(1)}

\* Announcement.PRIORITY_CHOICES
Priorities == {"low", "medium", "high", "urgent"}

\* The days of the model; today is the day before the last one.
Days == 1..MaxDay

\* A row of the Listing table: three independent nullable foreign keys.
ListingRows ==
  [province : DOMAIN ProvinceRows \cup {NULL},
   municipality : DOMAIN MunicipalityRows \cup {NULL},
   barangay : DOMAIN BarangayRows \cup {NULL},
   status : ListingStatus,
   price : Prices]

\* A row of the Announcement table: province and municipality are required,
\* barangay is nullable, and the two scope flags are independent of them.
AnnouncementRows ==
  [province : DOMAIN ProvinceRows,
   municipality : DOMAIN MunicipalityRows,
   barangay : DOMAIN BarangayRows \cup {NULL},
   is_province_wide : BOOLEAN,
   is_municipality_wide : BOOLEAN,
   priority : Priorities,
   expiry_date : {NoValue} \cup {Value(d) : d \in Days},
   is_active : BOOLEAN]

\* The codes a request may carry at each level: none, the code of a row of
\* that level, or a code no row carries.
UnknownCode == "999999999"

ProvinceCodes ==
  {ABSENT, UnknownCode} \cup {ProvinceRows[p].psgc_code : p \in DOMAIN ProvinceRows}

MunicipalityCodes ==
  {ABSENT, UnknownCode}
    \cup {MunicipalityRows[m].psgc_code : m \in DOMAIN MunicipalityRows}

BarangayCodes ==
  {ABSENT, UnknownCode} \cup {BarangayRows[b].psgc_code : b \in DOMAIN BarangayRows}

\* GET /api/listings/ with its query parameters.
ListingRequests ==
  [view : {"listings"},
   province : ProvinceCodes,
   municipality : MunicipalityCodes,
   barangay : BarangayCodes,
   min_price : {ABSENT, "2"},
   max_price : {ABSENT, "1"},
   include_expired : {ABSENT}]

\* GET /api/announcements/ with its query parameters.
AnnouncementRequests ==
  [view : {"announcements"},
   province : ProvinceCodes,
   municipality : MunicipalityCodes,
   barangay : BarangayCodes,
   min_price : {ABSENT},
   max_price : {ABSENT},
   include_expired : {ABSENT, "true", "True"}]

(***************************************************************************)
(* The location directory                                                  *)
(***************************************************************************)

\* Python truthiness of a query parameter: None and '' are false.
Truthy(code) == code # ABSENT /\ code # ""

\* Province.objects.get(psgc_code=code): the matching rows.  get() returns
\* the row when there is exactly one and raises DoesNotExist when there is
\* none.
ProvinceGet(code) ==
  {p \in DOMAIN provinces : provinces[p].psgc_code = code}

\* A lookup of the municipality by its code alone, whatever its province.
MunicipalityGet_AnyProvince(code, province_obj) ==
  {m \in DOMAIN municipalities : municipalities[m].psgc_code = code}

\* Municipality.objects.get(psgc_code=code, province=province_obj)
MunicipalityGet(code, province_obj) ==
  {m \in DOMAIN municipalities :
     /\ municipalities[m].psgc_code = code
     /\ municipalities[m].province = province_obj}

\* Municipality.objects.get(psgc_code=code)
MunicipalityGetByCode(code) ==
  {m \in DOMAIN municipalities : municipalities[m].psgc_code = code}

\* Barangay.objects.get(psgc_code=code, municipality=municipality_obj)
BarangayGet(code, municipality_obj) ==
  {b \in DOMAIN barangays :
     /\ barangays[b].psgc_code = code
     /\ barangays[b].municipality = municipality_obj}

\* The row a get() returns when exactly one row matches.
The(S) == CHOOSE x \in S : TRUE

\* What a get() with the matching rows S raises: DoesNotExist for no row,
\* MultipleObjectsReturned for more than one, nothing for exactly one.
Raised(S) ==
  IF S = {} THEN "DoesNotExist"
  ELSE IF Cardinality(S) > 1 THEN "MultipleObjectsReturned"
  ELSE "none"

\* The exception that ends a try block of successive get() calls: that of
\* the first call that raises.
FirstRaised(gets) ==
  IF \E i \in 1..Len(gets) : Raised(gets[i]) # "none"
  THEN Raised(gets[CHOOSE i \in 1..Len(gets) :
                     /\ Raised(gets[i]) # "none"
                     /\ \A j \in 1..(i - 1) : Raised(gets[j]) = "none"])
  ELSE "none"

\* The response of a list action: the rows of its queryset, or the server
\* error of an exception no handler caught.
Ok(rows) == [status |-> 200, results |-> rows]

ServerError == [status |-> 500, results |-> {}]

\* The list calls that may be in progress at once, and a call that has not
\* been received.
Calls == 1..MaxCalls

NoCall == [pc |-> "idle"]

\* No management command has run.
NoCommand == [name |-> "none"]

\* An answer as the client keeps it: the response with the day it was made.
Answer(resp) == [day |-> today, response |-> resp]

(***************************************************************************)
(* ListingViewSet                                                          *)
(***************************************************************************)

\* A base queryset of every listing, whatever its status.
ListingQueryset_All == DOMAIN listings

\* ListingViewSet.queryset: Listing.objects.filter(status='active')
ListingQueryset == {l \in DOMAIN listings : listings[l].status = "active"}

\* The value the price column compares a query parameter as
\* (DecimalField.to_python of the parameter's text).
ToDecimal(text) == CASE text = "1" -> 1 [] text = "2" -> 2

\* The price range of get_queryset: filter(price__gte=min_price) and
\* filter(price__lte=max_price), each applied when the parameter is truthy.
\* A listing with a null price passes neither filter.
PriceFiltered(queryset, req) ==
  {l \in queryset :
     /\ Truthy(req.min_price) =>
          \E price \in listings[l].price : price >= ToDecimal(req.min_price)
     /\ Truthy(req.max_price) =>
          \E price \in listings[l].price : price <= ToDecimal(req.max_price)}

\* The barangay-level filter without the province-wide arm.
ListingBarangayLevel_NoProvinceArm(queryset, province_obj, municipality_obj, barangay_obj) ==
  {l \in queryset :
     \/ listings[l].barangay = barangay_obj
     \/ /\ listings[l].municipality = municipality_obj
        /\ listings[l].barangay = NULL}

\* The barangay-level filter with a province-wide arm that does not look at
\* the barangay of the listing.
ListingBarangayLevel_AnyBarangay(queryset, province_obj, municipality_obj, barangay_obj) ==
  {l \in queryset :
     \/ listings[l].barangay = barangay_obj
     \/ /\ listings[l].municipality = municipality_obj
        /\ listings[l].barangay = NULL
     \/ /\ listings[l].province = province_obj
        /\ listings[l].municipality = NULL}

\* The barangay-level filter of get_queryset.
ListingBarangayLevel(queryset, province_obj, municipality_obj, barangay_obj) ==
  {l \in queryset :
     \/ listings[l].barangay = barangay_obj
     \/ /\ listings[l].municipality = municipality_obj
        /\ listings[l].barangay = NULL
     \/ /\ listings[l].province = province_obj
        /\ listings[l].municipality = NULL
        /\ listings[l].barangay = NULL}

\* The municipality-level filter whose exact arm keeps only the listings that
\* name no barangay.
ListingMunicipalityLevel_NoBarangay(queryset, province_obj, municipality_obj) ==
  {l \in queryset :
     \/ /\ listings[l].municipality = municipality_obj
        /\ listings[l].barangay = NULL
     \/ /\ listings[l].province = province_obj
        /\ listings[l].municipality = NULL}

\* The municipality-level filter without the province-wide arm.
ListingMunicipalityLevel_ExactOnly(queryset, province_obj, municipality_obj) ==
  {l \in queryset : listings[l].municipality = municipality_obj}

\* The municipality-level filter of get_queryset.
ListingMunicipalityLevel(queryset, province_obj, municipality_obj) ==
  {l \in queryset :
     \/ listings[l].municipality = municipality_obj
     \/ /\ listings[l].province = province_obj
        /\ listings[l].municipality = NULL}

\* The province-level filter that keeps only the listings tagged to the
\* province alone.
ListingProvinceLevel_UntaggedOnly(queryset, province_obj) ==
  {l \in queryset :
     listings[l].province = province_obj /\ listings[l].municipality = NULL}

\* The province-level filter that also keeps the listings of no province.
ListingProvinceLevel_OrNull(queryset, province_obj) ==
  {l \in queryset :
     listings[l].province = province_obj \/ listings[l].province = NULL}

\* The province-level filter of get_queryset.
ListingProvinceLevel(queryset, province_obj) ==
  {l \in queryset : listings[l].province = province_obj}

\* An except clause that catches nothing.
ListingCaught_Nothing(exc) == FALSE

\* The except clause of each location branch of get_queryset lists the
\* DoesNotExist of the models it looks up; the branch then answers
\* queryset.none().  Any other exception leaves the handler.
ListingCaught(exc) == exc = "DoesNotExist"

\* The barangay-level branch of get_queryset.
ListingBarangayBranch(queryset, req) ==
  LET ps == ProvinceGet(req.province)
      ms == IF Raised(ps) = "none" THEN MunicipalityGet(req.municipality, The(ps)) ELSE {}
      bs == IF Raised(ps) = "none" /\ Raised(ms) = "none"
            THEN BarangayGet(req.barangay, The(ms)) ELSE {}
      exc == FirstRaised(<<ps, ms, bs>>)
  IN  IF exc = "none"
      THEN Ok(ListingBarangayLevel(queryset, The(ps), The(ms), The(bs)))
      ELSE IF ListingCaught(exc) THEN Ok({}) ELSE ServerError

\* The municipality-level branch of get_queryset.
ListingMunicipalityBranch(queryset, req) ==
  LET ps == ProvinceGet(req.province)
      ms == IF Raised(ps) = "none" THEN MunicipalityGet(req.municipality, The(ps)) ELSE {}
      exc == FirstRaised(<<ps, ms>>)
  IN  IF exc = "none"
      THEN Ok(ListingMunicipalityLevel(queryset, The(ps), The(ms)))
      ELSE IF ListingCaught(exc) THEN Ok({}) ELSE ServerError

\* The province-level branch of get_queryset.
ListingProvinceBranch(queryset, req) ==
  LET ps == ProvinceGet(req.province)
      exc == FirstRaised(<<ps>>)
  IN  IF exc = "none"
      THEN Ok(ListingProvinceLevel(queryset, The(ps)))
      ELSE IF ListingCaught(exc) THEN Ok({}) ELSE ServerError

\* A get_queryset that falls back on the barangay code alone when a coarser
\* code is missing.
ListingGetQueryset_BarangayAlone(req) ==
  LET queryset == PriceFiltered(ListingQueryset, req)
  IN  IF Truthy(req.province) /\ Truthy(req.municipality) /\ Truthy(req.barangay)
      THEN ListingBarangayBranch(queryset, req)
      ELSE IF Truthy(req.barangay)
      THEN Ok({l \in queryset :
                 \E b \in DOMAIN barangays :
                   barangays[b].psgc_code = req.barangay /\ listings[l].barangay = b})
      ELSE IF Truthy(req.province) /\ Truthy(req.municipality)
      THEN ListingMunicipalityBranch(queryset, req)
      ELSE IF Truthy(req.province)
      THEN ListingProvinceBranch(queryset, req)
      ELSE Ok(queryset)

\* ListingViewSet.get_queryset: the base queryset narrowed by price and by
\* the location codes of the request.
ListingGetQueryset(req) ==
  LET queryset == PriceFiltered(ListingQueryset, req)
      province_code == req.province
      municipality_code == req.municipality
      barangay_code == req.barangay
  IN  IF Truthy(province_code) /\ Truthy(municipality_code) /\ Truthy(barangay_code)
      THEN ListingBarangayBranch(queryset, req)
      ELSE IF Truthy(province_code) /\ Truthy(municipality_code)
      THEN ListingMunicipalityBranch(queryset, req)
      ELSE IF Truthy(province_code)
      THEN ListingProvinceBranch(queryset, req)
      ELSE Ok(queryset)

\* GET /api/listings/: the list action answers with the rows of
\* get_queryset, or fails with the exception that left it.
ListListings ==
  /\ request = NoRequest
  /\ \E req \in ListingRequests :
       /\ request' = req
       /\ response' = ListingGetQueryset(req)
       /\ answers' = <<Answer(ListingGetQueryset(req))>>
  /\ UNCHANGED <<calls, command, provinces, municipalities, barangays, listings, announcements, today>>

\* The same GET /api/listings/ sent again: the list action answers it from
\* the store and the date of that moment.
ListListingsAgain ==
  /\ request.view = "listings"
  /\ Len(answers) < MaxAnswers
  /\ response' = ListingGetQueryset(request)
  /\ answers' = Append(answers, Answer(ListingGetQueryset(request)))
  /\ UNCHANGED <<calls, command, provinces, municipalities, barangays, listings, announcements,
                 today, request>>

(***************************************************************************)
(* AnnouncementViewSet                                                     *)
(***************************************************************************)

\* A base queryset that remembers the previous response and leaves out the
\* rows it returned.
AnnouncementQueryset_Unseen ==
  {a \in DOMAIN announcements :
     announcements[a].is_active /\ a \notin response.results}

\* AnnouncementViewSet.queryset: Announcement.objects.filter(is_active=True)
AnnouncementQueryset == {a \in DOMAIN announcements : announcements[a].is_active}

\* str.lower() on the texts a request carries.
Lower(text) ==
  CASE text = "True" -> "true"
    [] text = "TRUE" -> "true"
    [] OTHER -> text

\* query_params.get('include_expired', 'false')
IncludeExpiredParam(req) ==
  IF req.include_expired = ABSENT THEN "false" ELSE req.include_expired

\* The expiry filter that keeps only the announcements with an expiry_date
\* of today or later: a row with a null expiry_date is excluded.
ExpiryFiltered_DatedOnly(queryset, req) ==
  IF Lower(IncludeExpiredParam(req)) # "true"
  THEN {a \in queryset : \E d \in announcements[a].expiry_date : d >= today}
  ELSE queryset

\* The expiry filter applied whatever the request asks.
ExpiryFiltered_IgnoresFlag(queryset, req) ==
  {a \in queryset : ~(\E d \in announcements[a].expiry_date : d < today)}

\* The expiry filter with expiry_date__lte: an announcement that expires today
\* is excluded too.
ExpiryFiltered_OnOrBefore(queryset, req) ==
  IF Lower(IncludeExpiredParam(req)) # "true"
  THEN {a \in queryset : ~(\E d \in announcements[a].expiry_date : d <= today)}
  ELSE queryset

\* exclude(expiry_date__lt=timezone.now().date()): a row with a null
\* expiry_date is kept.
ExpiryFiltered(queryset, req) ==
  IF Lower(IncludeExpiredParam(req)) # "true"
  THEN {a \in queryset : ~(\E d \in announcements[a].expiry_date : d < today)}
  ELSE queryset

\* The barangay-level filter whose exact tier matches the barangay alone.
AnnouncementBarangayLevel_BarangayAlone(queryset, province_obj, municipality_obj, barangay_obj) ==
  {a \in queryset :
     \/ announcements[a].barangay = barangay_obj
     \/ /\ announcements[a].is_municipality_wide
        /\ announcements[a].municipality = municipality_obj
        /\ announcements[a].province = province_obj
        /\ announcements[a].priority \in {"high", "urgent"}
     \/ /\ announcements[a].is_province_wide
        /\ announcements[a].province = province_obj
        /\ announcements[a].priority = "urgent"}

\* The barangay-level filter without the priority gate of the municipality-wide
\* tier.
AnnouncementBarangayLevel_NoMunicipalityGate(queryset, province_obj, municipality_obj, barangay_obj) ==
  {a \in queryset :
     \/ /\ announcements[a].barangay = barangay_obj
        /\ announcements[a].municipality = municipality_obj
        /\ announcements[a].province = province_obj
     \/ /\ announcements[a].is_municipality_wide
        /\ announcements[a].municipality = municipality_obj
        /\ announcements[a].province = province_obj
     \/ /\ announcements[a].is_province_wide
        /\ announcements[a].province = province_obj
        /\ announcements[a].priority = "urgent"}

\* The barangay-level filter whose province-wide tier has the gate of the
\* municipality-wide tier.
AnnouncementBarangayLevel_HighProvinceGate(queryset, province_obj, municipality_obj, barangay_obj) ==
  {a \in queryset :
     \/ /\ announcements[a].barangay = barangay_obj
        /\ announcements[a].municipality = municipality_obj
        /\ announcements[a].province = province_obj
     \/ /\ announcements[a].is_municipality_wide
        /\ announcements[a].municipality = municipality_obj
        /\ announcements[a].province = province_obj
        /\ announcements[a].priority \in {"high", "urgent"}
     \/ /\ announcements[a].is_province_wide
        /\ announcements[a].province = province_obj
        /\ announcements[a].priority \in {"high", "urgent"}}

\* The barangay-level filter of get_queryset.
AnnouncementBarangayLevel(queryset, province_obj, municipality_obj, barangay_obj) ==
  {a \in queryset :
     \/ /\ announcements[a].barangay = barangay_obj
        /\ announcements[a].municipality = municipality_obj
        /\ announcements[a].province = province_obj
     \/ /\ announcements[a].is_municipality_wide
        /\ announcements[a].municipality = municipality_obj
        /\ announcements[a].province = province_obj
        /\ announcements[a].priority \in {"high", "urgent"}
     \/ /\ announcements[a].is_province_wide
        /\ announcements[a].province = province_obj
        /\ announcements[a].priority = "urgent"}

\* The municipality-level filter without its province-wide arm.
AnnouncementMunicipalityLevel_NoProvinceWide(queryset, province_obj, municipality_obj) ==
  {a \in queryset :
     /\ announcements[a].municipality = municipality_obj
     /\ announcements[a].province = province_obj}

\* The municipality-level filter with the urgent gate of the barangay level on
\* its province-wide tier.
AnnouncementMunicipalityLevel_UrgentGate(queryset, province_obj, municipality_obj) ==
  {a \in queryset :
     \/ /\ announcements[a].municipality = municipality_obj
        /\ announcements[a].province = province_obj
     \/ /\ announcements[a].is_province_wide
        /\ announcements[a].province = province_obj
        /\ announcements[a].priority = "urgent"}

\* The municipality-level filter of get_queryset.
AnnouncementMunicipalityLevel(queryset, province_obj, municipality_obj) ==
  {a \in queryset :
     \/ /\ announcements[a].municipality = municipality_obj
        /\ announcements[a].province = province_obj
     \/ /\ announcements[a].is_province_wide
        /\ announcements[a].province = province_obj}

\* A municipality code without a province code that filters nothing.
AnnouncementMunicipalityOnly_Ignored(queryset, municipality_obj) == queryset

\* The filter of get_queryset for a municipality code without a province code.
AnnouncementMunicipalityOnly(queryset, municipality_obj) ==
  {a \in queryset : announcements[a].municipality = municipality_obj}

\* The province-level filter that keeps the province-wide announcements only.
AnnouncementProvinceLevel_WideOnly(queryset, province_obj) ==
  {a \in queryset :
     announcements[a].province = province_obj /\ announcements[a].is_province_wide}

\* The province-level filter of get_queryset.
AnnouncementProvinceLevel(queryset, province_obj) ==
  {a \in queryset : announcements[a].province = province_obj}

\* The except clauses of the location branches of get_queryset.
AnnouncementCaught(exc) == exc = "DoesNotExist"

\* The barangay-level branch of get_queryset.
AnnouncementBarangayBranch(queryset, req) ==
  LET ps == ProvinceGet(req.province)
      ms == IF Raised(ps) = "none" THEN MunicipalityGet(req.municipality, The(ps)) ELSE {}
      bs == IF Raised(ps) = "none" /\ Raised(ms) = "none"
            THEN BarangayGet(req.barangay, The(ms)) ELSE {}
      exc == FirstRaised(<<ps, ms, bs>>)
  IN  IF exc = "none"
      THEN Ok(AnnouncementBarangayLevel(queryset, The(ps), The(ms), The(bs)))
      ELSE IF AnnouncementCaught(exc) THEN Ok({}) ELSE ServerError

\* The municipality-level branch of get_queryset.
AnnouncementMunicipalityBranch(queryset, req) ==
  LET ps == ProvinceGet(req.province)
      ms == IF Raised(ps) = "none" THEN MunicipalityGet(req.municipality, The(ps)) ELSE {}
      exc == FirstRaised(<<ps, ms>>)
  IN  IF exc = "none"
      THEN Ok(AnnouncementMunicipalityLevel(queryset, The(ps), The(ms)))
      ELSE IF AnnouncementCaught(exc) THEN Ok({}) ELSE ServerError

\* The branch of get_queryset for a municipality code without a province code.
AnnouncementMunicipalityOnlyBranch(queryset, req) ==
  LET ms == MunicipalityGetByCode(req.municipality)
      exc == FirstRaised(<<ms>>)
  IN  IF exc = "none"
      THEN Ok(AnnouncementMunicipalityOnly(queryset, The(ms)))
      ELSE IF AnnouncementCaught(exc) THEN Ok({}) ELSE ServerError

\* The province-level branch of get_queryset.
AnnouncementProvinceBranch(queryset, req) ==
  LET ps == ProvinceGet(req.province)
      exc == FirstRaised(<<ps>>)
  IN  IF exc = "none"
      THEN Ok(AnnouncementProvinceLevel(queryset, The(ps)))
      ELSE IF AnnouncementCaught(exc) THEN Ok({}) ELSE ServerError

\* AnnouncementViewSet.get_queryset: the active announcements, without the
\* expired ones unless the request asks for them, narrowed by the location
\* codes of the request.
AnnouncementGetQueryset(req) ==
  LET queryset == ExpiryFiltered(AnnouncementQueryset, req)
      municipality_code == req.municipality
      province_code == req.province
      barangay_code == req.barangay
  IN  IF Truthy(barangay_code) /\ Truthy(municipality_code) /\ Truthy(province_code)
      THEN AnnouncementBarangayBranch(queryset, req)
      ELSE IF Truthy(municipality_code) /\ Truthy(province_code)
      THEN AnnouncementMunicipalityBranch(queryset, req)
      ELSE IF Truthy(municipality_code) /\ ~Truthy(province_code)
      THEN AnnouncementMunicipalityOnlyBranch(queryset, req)
      ELSE IF Truthy(province_code) /\ ~Truthy(municipality_code)
      THEN AnnouncementProvinceBranch(queryset, req)
      ELSE Ok(queryset)

\* GET /api/announcements/: the list action answers with the rows of
\* get_queryset, or fails with the exception that left it.
ListAnnouncements ==
  /\ request = NoRequest
  /\ \E req \in AnnouncementRequests :
       /\ request' = req
       /\ response' = AnnouncementGetQueryset(req)
       /\ answers' = <<Answer(AnnouncementGetQueryset(req))>>
  /\ UNCHANGED <<calls, command, provinces, municipalities, barangays, listings, announcements, today>>

\* The same GET /api/announcements/ sent again.
ListAnnouncementsAgain ==
  /\ request.view = "announcements"
  /\ Len(answers) < MaxAnswers
  /\ response' = AnnouncementGetQueryset(request)
  /\ answers' = Append(answers, Answer(AnnouncementGetQueryset(request)))
  /\ UNCHANGED <<calls, command, provinces, municipalities, barangays, listings, announcements,
                 today, request>>

\* timezone.now().date() moves on to the next day.
Tick ==
  /\ today < MaxDay
  /\ today' = today + 1
  /\ UNCHANGED <<calls, command, provinces, municipalities, barangays, listings, announcements,
                 request, response, answers>>

(***************************************************************************)
(* List calls in progress                                                  *)
(***************************************************************************)

\* The requests of the calls that run at once: location codes of rows of the
\* directory, without a price range.
ConcurrentRequests ==
  [view : {"listings"},
   province : {"112300000", "118200000"},
   municipality : {ABSENT, "112314000", "112302000"},
   barangay : {ABSENT, "112314001"},
   min_price : {ABSENT},
   max_price : {ABSENT},
   include_expired : {ABSENT}]
  \cup
  [view : {"announcements"},
   province : {ABSENT, "112300000"},
   municipality : {ABSENT, "112314000"},
   barangay : {ABSENT, "112314001"},
   min_price : {ABSENT},
   max_price : {ABSENT},
   include_expired : {ABSENT, "true"}]

\* The branch of get_queryset the codes of a request select.
CallBranch(req) ==
  IF req.view = "listings"
  THEN IF Truthy(req.province) /\ Truthy(req.municipality) /\ Truthy(req.barangay)
       THEN "barangay"
       ELSE IF Truthy(req.province) /\ Truthy(req.municipality) THEN "municipality"
       ELSE IF Truthy(req.province) THEN "province"
       ELSE "all"
  ELSE IF Truthy(req.barangay) /\ Truthy(req.municipality) /\ Truthy(req.province)
       THEN "barangay"
       ELSE IF Truthy(req.municipality) /\ Truthy(req.province) THEN "municipality"
       ELSE IF Truthy(req.municipality) /\ ~Truthy(req.province) THEN "municipality_only"
       ELSE IF Truthy(req.province) /\ ~Truthy(req.municipality) THEN "province"
       ELSE "all"

\* The get() calls get_queryset makes on the directory for a request: the
\* rows each finds and the exception that ends the try block.  They are the
\* local variables province_obj, municipality_obj and barangay_obj of the
\* call.
CallLookups(req) ==
  LET branch == CallBranch(req)
      ps == IF branch \in {"barangay", "municipality", "province"}
            THEN ProvinceGet(req.province) ELSE {}
      ms == IF branch \in {"barangay", "municipality"} /\ Raised(ps) = "none"
            THEN MunicipalityGet(req.municipality, The(ps))
            ELSE IF branch = "municipality_only"
            THEN MunicipalityGetByCode(req.municipality)
            ELSE {}
      bs == IF branch = "barangay" /\ Raised(ps) = "none" /\ Raised(ms) = "none"
            THEN BarangayGet(req.barangay, The(ms)) ELSE {}
      gets == CASE branch = "barangay" -> <<ps, ms, bs>>
                [] branch = "municipality" -> <<ps, ms>>
                [] branch = "municipality_only" -> <<ms>>
                [] branch = "province" -> <<ps>>
                [] OTHER -> <<>>
  IN  [branch |-> branch, exc |-> FirstRaised(gets), ps |-> ps, ms |-> ms, bs |-> bs]

\* The evaluation of the queryset get_queryset returned, on the rows of the
\* content table at that moment.
CallEvaluate(req, found) ==
  IF found.exc # "none"
  THEN IF (IF req.view = "listings" THEN ListingCaught(found.exc)
           ELSE AnnouncementCaught(found.exc))
       THEN Ok({}) ELSE ServerError
  ELSE IF req.view = "listings"
  THEN LET queryset == PriceFiltered(ListingQueryset, req)
       IN  Ok(CASE found.branch = "barangay" ->
                     ListingBarangayLevel(queryset, The(found.ps), The(found.ms),
                                          The(found.bs))
                [] found.branch = "municipality" ->
                     ListingMunicipalityLevel(queryset, The(found.ps), The(found.ms))
                [] found.branch = "province" ->
                     ListingProvinceLevel(queryset, The(found.ps))
                [] OTHER -> queryset)
  ELSE LET queryset == ExpiryFiltered(AnnouncementQueryset, req)
       IN  Ok(CASE found.branch = "barangay" ->
                     AnnouncementBarangayLevel(queryset, The(found.ps), The(found.ms),
                                               The(found.bs))
                [] found.branch = "municipality" ->
                     AnnouncementMunicipalityLevel(queryset, The(found.ps),
                                                   The(found.ms))
                [] found.branch = "municipality_only" ->
                     AnnouncementMunicipalityOnly(queryset, The(found.ms))
                [] found.branch = "province" ->
                     AnnouncementProvinceLevel(queryset, The(found.ps))
                [] OTHER -> queryset)

\* Local variables kept in one place for every call: those of the first call
\* that has looked its codes up.
CallFound_Shared(c) ==
  calls[CHOOSE d \in Calls : calls[d].pc \in {"evaluate", "done"}].found

\* The local variables of the call.
CallFound(c) == calls[c].found

\* A list request arrives and a call takes it.
ReceiveCall ==
  /\ \E c \in Calls, req \in ConcurrentRequests :
       /\ calls[c].pc = "idle"
       /\ calls' = [calls EXCEPT ![c] = [pc |-> "get_queryset", req |-> req]]
  /\ UNCHANGED <<provinces, municipalities, barangays, listings, announcements,
                 today, request, response, answers, command>>

\* A call runs get_queryset: it looks the codes of its request up in the
\* directory and builds its queryset.
LookupCall ==
  /\ \E c \in Calls :
       /\ calls[c].pc = "get_queryset"
       /\ calls' = [calls EXCEPT ![c] =
                      [pc |-> "evaluate", req |-> calls[c].req,
                       found |-> CallLookups(calls[c].req)]]
  /\ UNCHANGED <<provinces, municipalities, barangays, listings, announcements,
                 today, request, response, answers, command>>

\* A call evaluates its queryset on the content table and responds.
EvaluateCall ==
  /\ \E c \in Calls :
       /\ calls[c].pc = "evaluate"
       /\ calls' = [calls EXCEPT ![c] =
                      [pc |-> "done", req |-> calls[c].req, found |-> calls[c].found,
                       response |-> CallEvaluate(calls[c].req, CallFound(c))]]
  /\ UNCHANGED <<provinces, municipalities, barangays, listings, announcements,
                 today, request, response, answers, command>>

(***************************************************************************)
(* Management command unpublish_expired_announcements                      *)
(***************************************************************************)

\* The rows of the Announcement table the command works on, with the day of
\* updated_at.
SweptAnnouncementRows ==
  [province : {"P1"},
   municipality : {"M1"},
   barangay : {"B1", NULL},
   is_province_wide : {FALSE},
   is_municipality_wide : {FALSE},
   priority : {"medium"},
   expiry_date : {NoValue} \cup {Value(d) : d \in Days},
   is_active : BOOLEAN,
   updated_at : {MaxDay - 2}]

\* The selection without the date condition: every active announcement with
\* an expiry_date.
ExpiredAnnouncements_AnyDated ==
  {a \in DOMAIN announcements :
     /\ announcements[a].is_active
     /\ announcements[a].expiry_date # NoValue}

\* The selection with expiry_date__lte: an announcement that expires today
\* is selected too.
ExpiredAnnouncements_OnOrBefore ==
  {a \in DOMAIN announcements :
     /\ announcements[a].is_active
     /\ announcements[a].expiry_date # NoValue
     /\ \E d \in announcements[a].expiry_date : d <= today}

\* Announcement.objects.filter(is_active=True, expiry_date__isnull=False,
\* expiry_date__lt=today)
ExpiredAnnouncements ==
  {a \in DOMAIN announcements :
     /\ announcements[a].is_active
     /\ announcements[a].expiry_date # NoValue
     /\ \E d \in announcements[a].expiry_date : d < today}

\* handle: the command reports the announcements it found and, unless there
\* are none or --dry-run is given, runs update(is_active=False) on them,
\* which writes that column alone and calls no save().
UnpublishExpired ==
  /\ \E dry_run \in BOOLEAN :
       /\ command' = [name |-> "unpublish_expired_announcements",
                      dry_run |-> dry_run, found |-> ExpiredAnnouncements]
       /\ IF ExpiredAnnouncements = {} \/ dry_run
          THEN announcements' = announcements
          ELSE announcements' =
                 [a \in DOMAIN announcements |->
                    IF a \in ExpiredAnnouncements
                    THEN [announcements[a] EXCEPT !.is_active = FALSE]
                    ELSE announcements[a]]
  /\ UNCHANGED <<provinces, municipalities, barangays, listings, today,
                 request, response, answers, calls>>

(***************************************************************************)
(* Users and permissions                                                   *)
(***************************************************************************)

\* The users a write request may come from: the anonymous user, two users
\* with a verified e-mail address, one without, and two users with a
\* ProvinceModerator assignment for the first province, one of them active.
\* user.province_moderator is the set of that assignment, empty for none.
UserRows ==
  [anonymous |-> [is_authenticated |-> FALSE, email_verified |-> FALSE,
                  province_moderator |-> NoValue],
   ana |-> [is_authenticated |-> TRUE, email_verified |-> TRUE,
            province_moderator |-> NoValue],
   ben |-> [is_authenticated |-> TRUE, email_verified |-> TRUE,
            province_moderator |-> NoValue],
   cora |-> [is_authenticated |-> TRUE, email_verified |-> FALSE,
             province_moderator |-> NoValue],
   dan |-> [is_authenticated |-> TRUE, email_verified |-> TRUE,
            province_moderator |-> Value([province |-> "P1", is_active |-> TRUE])],
   eva |-> [is_authenticated |-> TRUE, email_verified |-> TRUE,
            province_moderator |-> Value([province |-> "P1", is_active |-> FALSE])]]

Users == DOMAIN UserRows

\* The primary keys a write request may name: those of the rows the store
\* can hold and one more.
ListingKeys == 1..(MaxListings + 1)

AnnouncementKeys == 1..(MaxAnnouncements + 1)

\* A response that carries a status code and the rows it serializes.
Response(code, rows) == [status |-> code, results |-> rows]

\* rest_framework.permissions.IsAuthenticated
IsAuthenticated(user) == UserRows[user].is_authenticated

\* IsEmailVerified.has_permission for a method that is not safe.
IsEmailVerified(user) ==
  UserRows[user].is_authenticated /\ UserRows[user].email_verified

\* IsAuthenticatedOrReadOnly for a method that is not safe.
IsAuthenticatedOrReadOnly(user) == UserRows[user].is_authenticated

\* IsProvinceModerator.has_permission
IsProvinceModerator(user) ==
  /\ UserRows[user].is_authenticated
  /\ \E assignment \in UserRows[user].province_moderator : assignment.is_active

\* The response to a request that a permission class refuses: 401 for a
\* request that carries no credentials, 403 otherwise.
PermissionDenied(user) ==
  IF UserRows[user].is_authenticated THEN Response(403, {}) ELSE Response(401, {})

(***************************************************************************)
(* ListingViewSet: update and destroy                                      *)
(***************************************************************************)

\* A row of the Listing table with the columns the write handlers read or
\* set: the seller and the day of updated_at besides those the list handler
\* reads.
OwnedListingRows ==
  [province : {"P1"},
   municipality : {NULL},
   barangay : {NULL},
   status : {"active", "sold"},
   price : {Value(1)},
   seller : {"ana", "ben"},
   updated_at : 1..(MaxDay - 1)]

\* The bodies of PATCH /api/listings/{pk}/: the writable fields they carry.
ListingPatches == {[price |-> Value(2)], [status |-> "sold"]}

\* ListingViewSet.get_permissions with permission_classes: a verified e-mail
\* address for create, update and partial_update, IsAuthenticatedOrReadOnly
\* for every other action.  No permission class looks at the listing.
ListingPermitted(action, user) ==
  IF action \in {"create", "update", "partial_update"}
  THEN IsAuthenticated(user) /\ IsEmailVerified(user)
  ELSE IsAuthenticatedOrReadOnly(user)

\* ListingSerializer.update: setattr of every validated field, then save(),
\* which stamps updated_at (auto_now).
ListingUpdated(row, data) ==
  [f \in DOMAIN row |->
     IF f = "updated_at" THEN today
     ELSE IF f \in DOMAIN data THEN data[f]
     ELSE row[f]]

\* The rows of a table without those of the given keys.
Without(table, keys) == [k \in (DOMAIN table) \ keys |-> table[k]]

\* PATCH /api/listings/{pk}/: check_permissions, get_object on
\* get_queryset, then the serializer's update.
PartialUpdateListing ==
  \E user \in Users, pk \in ListingKeys, data \in ListingPatches :
    /\ request' = [view |-> "listing_partial_update", user |-> user,
                   pk |-> pk, data |-> data]
    /\ IF ~ListingPermitted("partial_update", user)
       THEN response' = PermissionDenied(user) /\ listings' = listings
       ELSE IF pk \notin ListingQueryset
       THEN response' = Response(404, {}) /\ listings' = listings
       ELSE /\ listings' = [listings EXCEPT ![pk] = ListingUpdated(@, data)]
            /\ response' = Response(200, {pk})
    /\ UNCHANGED <<calls, command, provinces, municipalities, barangays, announcements, today, answers>>

\* POST /api/listings/{pk}/mark_sold/: the action's own permission class
\* (IsAuthenticated), get_object on get_queryset, the seller check, then
\* save(), which stamps updated_at.
MarkSold ==
  \E user \in Users, pk \in ListingKeys :
    /\ request' = [view |-> "listing_mark_sold", user |-> user, pk |-> pk]
    /\ IF ~IsAuthenticated(user)
       THEN response' = PermissionDenied(user) /\ listings' = listings
       ELSE IF pk \notin ListingQueryset
       THEN response' = Response(404, {}) /\ listings' = listings
       ELSE IF listings[pk].seller # user
       THEN response' = Response(403, {}) /\ listings' = listings
       ELSE /\ listings' = [listings EXCEPT ![pk].status = "sold",
                                            ![pk].updated_at = today]
            /\ response' = Response(200, {pk})
    /\ UNCHANGED <<calls, command, provinces, municipalities, barangays, announcements, today, answers>>

\* DELETE /api/listings/{pk}/: check_permissions, get_object on
\* get_queryset, then instance.delete().
DestroyListing ==
  \E user \in Users, pk \in ListingKeys :
    /\ request' = [view |-> "listing_destroy", user |-> user, pk |-> pk,
                   data |-> ABSENT]
    /\ IF ~ListingPermitted("destroy", user)
       THEN response' = PermissionDenied(user) /\ listings' = listings
       ELSE IF pk \notin ListingQueryset
       THEN response' = Response(404, {}) /\ listings' = listings
       ELSE /\ listings' = Without(listings, {pk})
            /\ response' = Response(204, {})
    /\ UNCHANGED <<calls, command, provinces, municipalities, barangays, announcements, today, answers>>

(***************************************************************************)
(* Moderator views                                                         *)
(***************************************************************************)

\* The rows of the Listing table the moderator views work on, last saved the
\* day before today.
ModeratedListingRows ==
  [province : {"P1", "P2", NULL},
   municipality : {NULL},
   barangay : {NULL},
   status : {"active", "hidden", "sold"},
   price : {Value(1)},
   seller : {"ana"},
   updated_at : {MaxDay - 2}]

\* The rows of the Announcement table the moderator views work on.
ModeratedAnnouncementRows ==
  [province : {"P1", "P2"},
   municipality : {"M1"},
   barangay : {NULL},
   is_province_wide : {FALSE},
   is_municipality_wide : {FALSE},
   priority : {"medium"},
   expiry_date : {NoValue},
   is_active : BOOLEAN,
   author : {"ana"},
   updated_at : {MaxDay - 2}]

\* request.data.get('status') of PATCH /api/mod/listings/{pk}/
ModStatusData == {ABSENT, "active", "hidden", "sold"}

\* request.data.get('is_active') of PATCH /api/mod/announcements/{pk}/: a
\* JSON value with its type, None when the body has no such key.
ModIsActiveData ==
  {[type |-> "NoneType", text |-> "null"],
   [type |-> "bool", text |-> "true"],
   [type |-> "bool", text |-> "false"],
   [type |-> "str", text |-> "true"]}

\* get_mod_province(user): the province of the user's active assignment, the
\* empty set for None.
GetModProvince(user) ==
  {assignment.province :
     assignment \in {x \in UserRows[user].province_moderator : x.is_active}}

\* permission_classes([IsAuthenticated, IsProvinceModerator]) of every
\* moderator view.
ModPermitted(user) == IsAuthenticated(user) /\ IsProvinceModerator(user)

\* A lookup of the listing by primary key alone.
ModListingGet_AnyProvince(pk, province) ==
  {l \in DOMAIN listings : l = pk}

\* Listing.objects.get(pk=pk, province=province)
ModListingGet(pk, province) ==
  {l \in DOMAIN listings : l = pk /\ listings[l].province = province}

\* Announcement.objects.get(pk=pk, province=province)
ModAnnouncementGet(pk, province) ==
  {a \in DOMAIN announcements : a = pk /\ announcements[a].province = province}

\* A status check that accepts every status the request carries.
ModStatusValid_Any(new_status) == new_status # ABSENT

\* new_status in ['active', 'hidden']
ModStatusValid(new_status) == new_status \in {"active", "hidden"}

\* not (is_active is None or not isinstance(is_active, bool))
ModIsActiveValid(is_active) == is_active.type = "bool"

\* The steps every moderator view takes before it looks at the body: the
\* permission classes, get_mod_province, and the lookup of the record in the
\* moderator's province.  The response that ends the view there, or
\* NoResponse when the record is found.
ModRefusal(user, found) ==
  IF ~ModPermitted(user) THEN PermissionDenied(user)
  ELSE IF GetModProvince(user) = {} THEN Response(403, {})
  ELSE IF found = {} THEN Response(404, {})
  ELSE NoResponse

\* The record a moderator view looks up for the user: none when the user has
\* no active assignment.
ModListingFound(user, pk) ==
  UNION {ModListingGet(pk, province) : province \in GetModProvince(user)}

ModAnnouncementFound(user, pk) ==
  UNION {ModAnnouncementGet(pk, province) : province \in GetModProvince(user)}

\* PATCH /api/mod/listings/{pk}/ (mod_listing_update_status)
ModListingUpdateStatus ==
  \E user \in Users, pk \in ListingKeys, new_status \in ModStatusData :
    /\ request' = [view |-> "mod_listing_update_status", user |-> user,
                   pk |-> pk, data |-> new_status]
    /\ IF ModRefusal(user, ModListingFound(user, pk)) # NoResponse
       THEN /\ response' = ModRefusal(user, ModListingFound(user, pk))
            /\ listings' = listings
       ELSE IF ~ModStatusValid(new_status)
       THEN response' = Response(400, {}) /\ listings' = listings
       ELSE /\ listings' = [listings EXCEPT ![pk].status = new_status,
                                            ![pk].updated_at = today]
            /\ response' = Response(200, {pk})
    /\ UNCHANGED <<calls, command, provinces, municipalities, barangays, announcements, today, answers>>

\* DELETE /api/mod/listings/{pk}/delete/ (mod_listing_delete)
ModListingDelete ==
  \E user \in Users, pk \in ListingKeys :
    /\ request' = [view |-> "mod_listing_delete", user |-> user, pk |-> pk,
                   data |-> ABSENT]
    /\ IF ModRefusal(user, ModListingFound(user, pk)) # NoResponse
       THEN /\ response' = ModRefusal(user, ModListingFound(user, pk))
            /\ listings' = listings
       ELSE /\ listings' = Without(listings, {pk})
            /\ response' = Response(200, {})
    /\ UNCHANGED <<calls, command, provinces, municipalities, barangays, announcements, today, answers>>

\* PATCH /api/mod/announcements/{pk}/ (mod_announcement_update_status)
ModAnnouncementUpdateStatus ==
  \E user \in Users, pk \in AnnouncementKeys, is_active \in ModIsActiveData :
    /\ request' = [view |-> "mod_announcement_update_status", user |-> user,
                   pk |-> pk, data |-> is_active]
    /\ IF ModRefusal(user, ModAnnouncementFound(user, pk)) # NoResponse
       THEN /\ response' = ModRefusal(user, ModAnnouncementFound(user, pk))
            /\ announcements' = announcements
       ELSE IF ~ModIsActiveValid(is_active)
       THEN response' = Response(400, {}) /\ announcements' = announcements
       ELSE /\ announcements' =
                 [announcements EXCEPT ![pk].is_active = (is_active.text = "true"),
                                       ![pk].updated_at = today]
            /\ response' = Response(200, {pk})
    /\ UNCHANGED <<calls, command, provinces, municipalities, barangays, listings, today, answers>>

\* DELETE /api/mod/announcements/{pk}/delete/ (mod_announcement_delete)
ModAnnouncementDelete ==
  \E user \in Users, pk \in AnnouncementKeys :
    /\ request' = [view |-> "mod_announcement_delete", user |-> user, pk |-> pk,
                   data |-> ABSENT]
    /\ IF ModRefusal(user, ModAnnouncementFound(user, pk)) # NoResponse
       THEN /\ response' = ModRefusal(user, ModAnnouncementFound(user, pk))
            /\ announcements' = announcements
       ELSE /\ announcements' = Without(announcements, {pk})
            /\ response' = Response(200, {})
    /\ UNCHANGED <<calls, command, provinces, municipalities, barangays, listings, today, answers>>

(***************************************************************************)
(* The location directory: reseeding and deletion                          *)
(***************************************************************************)

\* The primary keys of the directory tables: a row created after a delete
\* takes a key no row holds.
ProvinceKeys == DOMAIN ProvinceRows

MunicipalityKeys == DOMAIN MunicipalityRows

BarangayKeys == DOMAIN BarangayRows

\* The PSGC codes of the data the reseed command reads.
SeedProvinceCodes == {ProvinceRows[p].psgc_code : p \in DOMAIN ProvinceRows}

SeedMunicipalityCodes ==
  {MunicipalityRows[m].psgc_code : m \in DOMAIN MunicipalityRows}

SeedBarangayCodes == {BarangayRows[b].psgc_code : b \in DOMAIN BarangayRows}

\* The rows of the content store the directory's deletions reach.
DirectoryListingRows ==
  [province : {"P1"},
   municipality : {"M1", NULL},
   barangay : {"B1", NULL},
   status : {"active"},
   price : {Value(1)}]

DirectoryAnnouncementRows ==
  [province : {"P1"},
   municipality : {"M1"},
   barangay : {"B1", NULL},
   is_province_wide : {FALSE},
   is_municipality_wide : {FALSE},
   priority : {"medium"},
   expiry_date : {NoValue},
   is_active : {TRUE}]

\* Barangay.objects.update_or_create(psgc_code=code, ...): the lookup by
\* code.
BarangayGetByCode(code) ==
  {b \in DOMAIN barangays : barangays[b].psgc_code = code}

\* Province.objects.update_or_create(psgc_code=code, defaults=...): the row
\* of that code is updated, or a new row is created.
ReseedProvince ==
  /\ \E code \in SeedProvinceCodes :
       IF ProvinceGet(code) # {}
       THEN provinces' = provinces
       ELSE \E p \in ProvinceKeys \ DOMAIN provinces :
              provinces' = provinces @@ (p :> [psgc_code |-> code])
  /\ UNCHANGED <<calls, command, municipalities, barangays, listings, announcements, today,
                 request, response, answers>>

\* Municipality.objects.update_or_create(psgc_code=code,
\* defaults={'province': province, ...}): the row of that code is given the
\* province, or a new row of the province is created.
ReseedMunicipality ==
  /\ \E code \in SeedMunicipalityCodes, province \in DOMAIN provinces :
       IF MunicipalityGetByCode(code) # {}
       THEN municipalities' =
              [municipalities EXCEPT ![The(MunicipalityGetByCode(code))].province = province]
       ELSE \E m \in MunicipalityKeys \ DOMAIN municipalities :
              municipalities' =
                municipalities @@ (m :> [psgc_code |-> code, province |-> province])
  /\ UNCHANGED <<calls, command, provinces, barangays, listings, announcements, today,
                 request, response, answers>>

\* Barangay.objects.update_or_create(psgc_code=code,
\* defaults={'municipality': municipality, ...})
ReseedBarangay ==
  /\ \E code \in SeedBarangayCodes, municipality \in DOMAIN municipalities :
       IF BarangayGetByCode(code) # {}
       THEN barangays' =
              [barangays EXCEPT ![The(BarangayGetByCode(code))].municipality = municipality]
       ELSE \E b \in BarangayKeys \ DOMAIN barangays :
              barangays' =
                barangays @@ (b :> [psgc_code |-> code, municipality |-> municipality])
  /\ UNCHANGED <<calls, command, provinces, municipalities, listings, announcements, today,
                 request, response, answers>>

\* A delete of provinces that reaches no municipality.
MunicipalitiesUnder_None(ps) == {}

\* on_delete=CASCADE of Municipality.province: the municipalities a delete
\* of the provinces ps takes with it.
MunicipalitiesUnder(ps) ==
  {m \in DOMAIN municipalities : municipalities[m].province \in ps}

\* The delete of a municipality that leaves its barangays.
BarangaysUnder_None(ms) == {}

\* on_delete=CASCADE of Barangay.municipality
BarangaysUnder(ms) ==
  {b \in DOMAIN barangays : barangays[b].municipality \in ms}

\* The delete of the directory rows ps, ms and bs with what the foreign keys
\* of the content store do on it: SET_NULL for the three keys of Listing and
\* for Announcement.barangay, CASCADE for Announcement.province and
\* Announcement.municipality.
Collected(ps, ms, bs) ==
  /\ provinces' = Without(provinces, ps)
  /\ municipalities' = Without(municipalities, ms)
  /\ barangays' = Without(barangays, bs)
  /\ listings' =
       [l \in DOMAIN listings |->
          [listings[l] EXCEPT
             !.province = IF @ \in ps THEN NULL ELSE @,
             !.municipality = IF @ \in ms THEN NULL ELSE @,
             !.barangay = IF @ \in bs THEN NULL ELSE @]]
  /\ announcements' =
       [a \in {x \in DOMAIN announcements :
                 /\ announcements[x].province \notin ps
                 /\ announcements[x].municipality \notin ms} |->
          [announcements[a] EXCEPT !.barangay = IF @ \in bs THEN NULL ELSE @]]
  /\ UNCHANGED <<calls, command, today, request, response, answers>>

\* Province.delete()
DeleteProvince ==
  \E p \in DOMAIN provinces :
    Collected({p}, MunicipalitiesUnder({p}), BarangaysUnder(MunicipalitiesUnder({p})))

\* Municipality.delete()
DeleteMunicipality ==
  \E m \in DOMAIN municipalities : Collected({}, {m}, BarangaysUnder({m}))

\* Barangay.delete()
DeleteBarangay ==
  \E b \in DOMAIN barangays : Collected({}, {}, {b})

(***************************************************************************)
(* Specifications                                                          *)
(***************************************************************************)

\* The tables of at most n rows, keyed by primary key 1..n.
Tables(rows, n) == UNION {[1..k -> rows] : k \in 0..n}

InitDirectory ==
  /\ provinces = ProvinceRows
  /\ municipalities = MunicipalityRows
  /\ barangays = BarangayRows
  /\ today = MaxDay - 1
  /\ request = NoRequest
  /\ response = NoResponse
  /\ answers = <<>>
  /\ calls = [c \in Calls |-> NoCall]
  /\ command = NoCommand

\* A store of listings, before a request arrives.
InitListings ==
  /\ InitDirectory
  /\ listings \in Tables(ListingRows, MaxListings)
  /\ announcements = <<>>

\* A store of announcements, before a request arrives.
InitAnnouncements ==
  /\ InitDirectory
  /\ listings = <<>>
  /\ announcements \in Tables(AnnouncementRows, MaxAnnouncements)

\* Each list handler reads its own table only: the store holds rows of one.
Init == InitListings \/ InitAnnouncements

NextListings == ListListings

NextAnnouncements == ListAnnouncements

Next == NextListings \/ NextAnnouncements

SpecListings == InitListings /\ [][NextListings]_vars

SpecAnnouncements == InitAnnouncements /\ [][NextAnnouncements]_vars

Spec == Init /\ [][Next]_vars

\* A client that repeats its request, on the same day or after midnight.
NextRepeat ==
  \/ ListListings
  \/ ListListingsAgain
  \/ ListAnnouncements
  \/ ListAnnouncementsAgain
  \/ Tick

SpecRepeat == Init /\ [][NextRepeat]_vars

\* A store of listings with their sellers, before a write request arrives.
InitListingApi ==
  /\ InitDirectory
  /\ listings \in Tables(OwnedListingRows, MaxListings)
  /\ announcements = <<>>

NextListingApi == PartialUpdateListing \/ DestroyListing

SpecListingApi == InitListingApi /\ [][NextListingApi]_vars

\* A store of listings or of announcements, before a moderator's request
\* arrives.
InitModeration ==
  /\ InitDirectory
  /\ \/ /\ listings \in Tables(ModeratedListingRows, MaxListings)
        /\ announcements = <<>>
     \/ /\ listings = <<>>
        /\ announcements \in Tables(ModeratedAnnouncementRows, MaxAnnouncements)

NextModeration ==
  \/ ModListingUpdateStatus
  \/ ModListingDelete
  \/ ModAnnouncementUpdateStatus
  \/ ModAnnouncementDelete

SpecModeration == InitModeration /\ [][NextModeration]_vars

\* The directory with a small content store that refers to it.
InitLocations ==
  /\ InitDirectory
  /\ listings \in Tables(DirectoryListingRows, MaxListings)
  /\ announcements \in Tables(DirectoryAnnouncementRows, MaxAnnouncements)

NextLocations ==
  \/ ReseedProvince
  \/ ReseedMunicipality
  \/ ReseedBarangay
  \/ DeleteProvince
  \/ DeleteMunicipality
  \/ DeleteBarangay

SpecLocations == InitLocations /\ [][NextLocations]_vars

\* A store of listings tagged to rows of the directory, each key set on its
\* own, before rows of the directory are deleted.
TaggedListingRows ==
  [province : {"P1"},
   municipality : {"M1", "M2", NULL},
   barangay : {"B1", NULL},
   status : {"active"},
   price : {Value(1)}]

InitDeletions ==
  /\ InitDirectory
  /\ listings \in Tables(TaggedListingRows, MaxListings)
  /\ announcements \in Tables(DirectoryAnnouncementRows, MaxAnnouncements)

NextDeletions == DeleteProvince \/ DeleteMunicipality \/ DeleteBarangay

SpecDeletions == InitDeletions /\ [][NextDeletions]_vars

\* A store of listings of two sellers in two provinces, before a request
\* that changes a status arrives.
StatusListingRows ==
  [province : {"P1", "P2"},
   municipality : {"M1", NULL},
   barangay : {NULL},
   status : {"active", "hidden", "sold"},
   price : {Value(1)},
   seller : {"ana", "ben"},
   updated_at : {MaxDay - 2}]

InitStatus ==
  /\ InitDirectory
  /\ listings \in Tables(StatusListingRows, MaxListings)
  /\ announcements = <<>>

\* The requests that set the status of a listing.
NextStatus == MarkSold \/ ModListingUpdateStatus \/ PartialUpdateListing

SpecStatus == InitStatus /\ [][NextStatus]_vars

\* A store of announcements, some of them expired or inactive, on which the
\* command runs day after day.
InitSweep ==
  /\ InitDirectory
  /\ listings = <<>>
  /\ announcements \in Tables(SweptAnnouncementRows, MaxSwept)

NextSweep == UnpublishExpired \/ Tick

SpecSweep == InitSweep /\ [][NextSweep]_vars

\* List calls that run at once on a store no other request changes.
NextConcurrent == ReceiveCall \/ LookupCall \/ EvaluateCall

SpecConcurrent == InitLocations /\ [][NextConcurrent]_vars

(***************************************************************************)
(* The scope of the answered request, in the words of the specification   *)
(***************************************************************************)

\* The request carries a code at this level.
Supplied(code) == code # ABSENT

\* The directory rows carrying a code: the provinces of that code, the
\* municipalities of that code within a province, the barangays of that
\* code within a municipality.
ProvincesOf(code) == {p \in DOMAIN provinces : provinces[p].psgc_code = code}

MunicipalitiesOf(code, p) ==
  {m \in DOMAIN municipalities :
     municipalities[m].psgc_code = code /\ municipalities[m].province = p}

BarangaysOf(code, m) ==
  {b \in DOMAIN barangays :
     barangays[b].psgc_code = code /\ barangays[b].municipality = m}

\* A request of the view has been answered.
Answered(view) == request.view = view

\* The level of the codes the answered request carries: every level down to
\* it is supplied and none below it.
ScopeLevel ==
  CASE Supplied(request.province) /\ Supplied(request.municipality)
         /\ Supplied(request.barangay) -> "barangay"
    [] Supplied(request.province) /\ Supplied(request.municipality)
         /\ ~Supplied(request.barangay) -> "municipality"
    [] Supplied(request.province) /\ ~Supplied(request.municipality)
         /\ ~Supplied(request.barangay) -> "province"
    [] ~Supplied(request.province) /\ ~Supplied(request.municipality)
         /\ ~Supplied(request.barangay) -> "none"
    [] OTHER -> "incomplete"

\* The scopes the codes of the answered request resolve to: the provinces P
\* of the province code, the pairs <<P, M>> with M of the municipality code
\* within P, the triples <<P, M, B>> with B of the barangay code within M.
ResolvedProvinces == ProvincesOf(request.province)

ResolvedMunicipalities ==
  {<<P, M>> \in (DOMAIN provinces) \X (DOMAIN municipalities) :
     P \in ResolvedProvinces /\ M \in MunicipalitiesOf(request.municipality, P)}

ResolvedBarangays ==
  {<<P, M, B>> \in (DOMAIN provinces) \X (DOMAIN municipalities) \X (DOMAIN barangays) :
     /\ <<P, M>> \in ResolvedMunicipalities
     /\ B \in BarangaysOf(request.barangay, M)}

\* The base set of a listing request: the active listings within the price
\* range of the request.
ListingBaseSet == PriceFiltered(ListingQueryset, request)

(***************************************************************************)
(* Listings                                                                *)
(***************************************************************************)

\* C1 (as stated): at barangay scope (P, M, B) the listing result is exactly
\* the base-set listings L with L.barangay = B, or L.barangay null and
\* L.municipality = M, or L.municipality null and L.province = P, with no
\* other condition on any arm.
C1_AsStated ==
  (Answered("listings") /\ ScopeLevel = "barangay") =>
    \A s \in ResolvedBarangays :
      response.results =
        {l \in ListingBaseSet :
           \/ listings[l].barangay = s[3]
           \/ listings[l].barangay = NULL /\ listings[l].municipality = s[2]
           \/ listings[l].municipality = NULL /\ listings[l].province = s[1]}

\* C1 (amended): at barangay scope (P, M, B) the listing result is exactly
\* the base-set listings L with L.barangay = B, or L.barangay null and
\* L.municipality = M, or L.municipality null and L.barangay null and
\* L.province = P: the province-wide arm also requires a null barangay.
C1_BarangayScopeListings ==
  (Answered("listings") /\ ScopeLevel = "barangay") =>
    \A s \in ResolvedBarangays :
      /\ response.status = 200
      /\ response.results =
           {l \in ListingBaseSet :
              \/ listings[l].barangay = s[3]
              \/ listings[l].barangay = NULL /\ listings[l].municipality = s[2]
              \/ /\ listings[l].municipality = NULL
                 /\ listings[l].barangay = NULL
                 /\ listings[l].province = s[1]}

\* A barangay-scope listing request answered with a province-wide listing.
C1_Witness ==
  /\ Answered("listings") /\ ScopeLevel = "barangay"
  /\ \E s \in ResolvedBarangays : \E l \in response.results :
       /\ listings[l].province = s[1]
       /\ listings[l].municipality = NULL
       /\ listings[l].barangay = NULL

\* C2: at municipality scope (P, M) the listing result is exactly the
\* base-set listings with municipality = M united with those with a null
\* municipality and province = P; so a listing of P with no municipality is
\* returned for every municipality of P, and a listing tagged to another
\* municipality is not returned.
C2_MunicipalityScopeListings ==
  (Answered("listings") /\ ScopeLevel = "municipality") =>
    \A s \in ResolvedMunicipalities :
      /\ response.status = 200
      /\ response.results =
           {l \in ListingBaseSet : listings[l].municipality = s[2]}
             \cup {l \in ListingBaseSet :
                     listings[l].municipality = NULL /\ listings[l].province = s[1]}
      /\ \A l \in ListingBaseSet :
           /\ (listings[l].province = s[1] /\ listings[l].municipality = NULL)
                => l \in response.results
           /\ listings[l].municipality \in DOMAIN municipalities \ {s[2]}
                => l \notin response.results

\* A municipality-scope listing request answered with a listing of the
\* province that names no municipality.
C2_Witness ==
  /\ Answered("listings") /\ ScopeLevel = "municipality"
  /\ \E s \in ResolvedMunicipalities : \E l \in response.results :
       listings[l].province = s[1] /\ listings[l].municipality = NULL

\* C3: with no location code the listing result is the whole base set, and
\* with a province code only, resolving to P, it is exactly the base-set
\* listings with province = P.
C3_ProvinceScopeListings ==
  /\ (Answered("listings") /\ ScopeLevel = "none") =>
       response = [status |-> 200, results |-> ListingBaseSet]
  /\ (Answered("listings") /\ ScopeLevel = "province") =>
       \A P \in ResolvedProvinces :
         /\ response.status = 200
         /\ response.results = {l \in ListingBaseSet : listings[l].province = P}

\* A province-scope listing request that returns a listing of the province
\* tagged to a municipality and a barangay.
C3_Witness ==
  /\ Answered("listings") /\ ScopeLevel = "province"
  /\ \E P \in ResolvedProvinces : \E l \in response.results :
       /\ listings[l].province = P
       /\ listings[l].municipality # NULL
       /\ listings[l].barangay # NULL

(***************************************************************************)
(* Announcements                                                           *)
(***************************************************************************)

\* The announcement's expiry_date is before today.
Expired(a) == \E d \in announcements[a].expiry_date : d < today

\* The base set of an announcement request after expiry filtering: the
\* active announcements, without the expired ones unless the request asks
\* for them.
AnnouncementBaseSet == ExpiryFiltered(AnnouncementQueryset, request)

\* C4: at barangay scope (P, M, B) the announcement result is exactly the
\* union of (a) the announcements with barangay = B, municipality = M and
\* province = P, (b) the municipality-wide ones of M and P with priority high
\* or urgent, and (c) the province-wide ones of P with priority urgent, after
\* expiry filtering.
C4_BarangayScopeAnnouncements ==
  (Answered("announcements") /\ ScopeLevel = "barangay") =>
    \A s \in ResolvedBarangays :
      /\ response.status = 200
      /\ response.results =
           {a \in AnnouncementBaseSet :
              /\ announcements[a].barangay = s[3]
              /\ announcements[a].municipality = s[2]
              /\ announcements[a].province = s[1]}
           \cup
           {a \in AnnouncementBaseSet :
              /\ announcements[a].is_municipality_wide
              /\ announcements[a].municipality = s[2]
              /\ announcements[a].province = s[1]
              /\ announcements[a].priority \in {"high", "urgent"}}
           \cup
           {a \in AnnouncementBaseSet :
              /\ announcements[a].is_province_wide
              /\ announcements[a].province = s[1]
              /\ announcements[a].priority = "urgent"}

\* A barangay-scope announcement request answered with an announcement of
\* the exact tier that carries no scope flag.
C4_Witness ==
  /\ Answered("announcements") /\ ScopeLevel = "barangay"
  /\ \E s \in ResolvedBarangays : \E a \in response.results :
       /\ announcements[a].barangay = s[3]
       /\ ~announcements[a].is_municipality_wide
       /\ ~announcements[a].is_province_wide

\* C5: at municipality scope (P, M) the announcement result is exactly the
\* union of the announcements with municipality = M and province = P
\* (whatever their barangay) and the province-wide announcements of P,
\* whatever their priority.
C5_MunicipalityScopeAnnouncements ==
  (Answered("announcements") /\ ScopeLevel = "municipality") =>
    \A s \in ResolvedMunicipalities :
      /\ response.status = 200
      /\ response.results =
           {a \in AnnouncementBaseSet :
              announcements[a].municipality = s[2] /\ announcements[a].province = s[1]}
           \cup
           {a \in AnnouncementBaseSet :
              announcements[a].is_province_wide /\ announcements[a].province = s[1]}

\* A municipality-scope announcement request answered with a province-wide
\* announcement of low priority created in another municipality.
C5_Witness ==
  /\ Answered("announcements") /\ ScopeLevel = "municipality"
  /\ \E s \in ResolvedMunicipalities : \E a \in response.results :
       /\ announcements[a].is_province_wide
       /\ announcements[a].municipality # s[2]
       /\ announcements[a].priority = "low"

\* C6: with no location code the announcement result is the whole base set
\* after expiry filtering, and with a province code only, resolving to P, it
\* is exactly the base-set announcements with province = P, whatever their
\* scope flags and priority.
C6_ProvinceScopeAnnouncements ==
  /\ (Answered("announcements") /\ ScopeLevel = "none") =>
       response = [status |-> 200, results |-> AnnouncementBaseSet]
  /\ (Answered("announcements") /\ ScopeLevel = "province") =>
       \A P \in ResolvedProvinces :
         /\ response.status = 200
         /\ response.results =
              {a \in AnnouncementBaseSet : announcements[a].province = P}

\* A province-scope announcement request answered with an announcement of
\* low priority that carries no scope flag.
C6_Witness ==
  /\ Answered("announcements") /\ ScopeLevel = "province"
  /\ \E P \in ResolvedProvinces : \E a \in response.results :
       /\ announcements[a].province = P
       /\ ~announcements[a].is_province_wide
       /\ ~announcements[a].is_municipality_wide
       /\ announcements[a].priority = "low"

\* C7: an active, unexpired municipality-wide announcement of M and P that
\* is not tagged to the queried barangay is returned by the barangay-scope
\* query (P, M, B), for every B of M, when its priority is high or urgent,
\* and is not returned when its priority is low or medium.
C7_MunicipalityWideGate ==
  (Answered("announcements") /\ ScopeLevel = "barangay") =>
    \A s \in ResolvedBarangays : \A a \in DOMAIN announcements :
      ( /\ announcements[a].is_active
        /\ ~Expired(a)
        /\ announcements[a].is_municipality_wide
        /\ announcements[a].municipality = s[2]
        /\ announcements[a].province = s[1]
        /\ announcements[a].barangay # s[3] ) =>
          /\ announcements[a].priority \in {"high", "urgent"} => a \in response.results
          /\ announcements[a].priority \in {"low", "medium"} => a \notin response.results

\* A barangay-scope request answered with a municipality-wide announcement
\* of high priority that is neither tagged to the barangay nor province-wide.
C7_Witness ==
  /\ Answered("announcements") /\ ScopeLevel = "barangay"
  /\ \E s \in ResolvedBarangays : \E a \in response.results :
       /\ announcements[a].is_municipality_wide
       /\ ~announcements[a].is_province_wide
       /\ announcements[a].priority = "high"
       /\ announcements[a].barangay # s[3]

\* C8: an active, unexpired province-wide announcement of P that matches
\* neither the exact tier nor the municipality-wide tier of the
\* barangay-scope query (P, M, B) is returned if and only if its priority is
\* urgent.
C8_ProvinceWideGate ==
  (Answered("announcements") /\ ScopeLevel = "barangay") =>
    \A s \in ResolvedBarangays : \A a \in DOMAIN announcements :
      ( /\ announcements[a].is_active
        /\ ~Expired(a)
        /\ announcements[a].is_province_wide
        /\ announcements[a].province = s[1]
        /\ ~( /\ announcements[a].barangay = s[3]
              /\ announcements[a].municipality = s[2]
              /\ announcements[a].province = s[1] )
        /\ ~( /\ announcements[a].is_municipality_wide
              /\ announcements[a].municipality = s[2]
              /\ announcements[a].province = s[1]
              /\ announcements[a].priority \in {"high", "urgent"} ) ) =>
          (a \in response.results <=> announcements[a].priority = "urgent")

\* A barangay-scope request answered with an urgent province-wide
\* announcement of another municipality.
C8_Witness ==
  /\ Answered("announcements") /\ ScopeLevel = "barangay"
  /\ \E s \in ResolvedBarangays : \E a \in response.results :
       /\ announcements[a].is_province_wide
       /\ announcements[a].priority = "urgent"
       /\ announcements[a].municipality # s[2]

\* The location rule of the answered announcement request, for the four
\* documented scopes; an incomplete scope has no documented rule.
LocationRule(a) ==
  CASE ScopeLevel = "none" -> TRUE
    [] ScopeLevel = "province" ->
         \E P \in ResolvedProvinces : announcements[a].province = P
    [] ScopeLevel = "municipality" ->
         \E s \in ResolvedMunicipalities :
           \/ announcements[a].municipality = s[2] /\ announcements[a].province = s[1]
           \/ announcements[a].is_province_wide /\ announcements[a].province = s[1]
    [] ScopeLevel = "barangay" ->
         \E s \in ResolvedBarangays :
           \/ /\ announcements[a].barangay = s[3]
              /\ announcements[a].municipality = s[2]
              /\ announcements[a].province = s[1]
           \/ /\ announcements[a].is_municipality_wide
              /\ announcements[a].municipality = s[2]
              /\ announcements[a].province = s[1]
              /\ announcements[a].priority \in {"high", "urgent"}
           \/ /\ announcements[a].is_province_wide
              /\ announcements[a].province = s[1]
              /\ announcements[a].priority = "urgent"
    [] OTHER -> FALSE

\* C9: an active announcement whose expiry_date is before today is in the
\* result of no announcement request made without include_expired, and is in
\* the result of a request made with include_expired = true whenever it
\* satisfies the location rule of that request.
C9_ExpiryExclusion ==
  Answered("announcements") =>
    \A a \in DOMAIN announcements :
      (announcements[a].is_active /\ Expired(a)) =>
        /\ request.include_expired = ABSENT => a \notin response.results
        /\ (request.include_expired \in {"true", "True"} /\ LocationRule(a))
             => a \in response.results

\* A request made with include_expired = true answered with an expired
\* announcement.
C9_Witness ==
  /\ Answered("announcements")
  /\ request.include_expired = "true"
  /\ \E a \in response.results : Expired(a)

(***************************************************************************)
(* Unknown codes                                                           *)
(***************************************************************************)

\* A supplied code of the answered request matches no directory row of its
\* level.
SomeCodeUnknown ==
  \/ /\ Supplied(request.province)
     /\ \A p \in DOMAIN provinces : provinces[p].psgc_code # request.province
  \/ /\ Supplied(request.municipality)
     /\ \A m \in DOMAIN municipalities :
          municipalities[m].psgc_code # request.municipality
  \/ /\ Supplied(request.barangay)
     /\ \A b \in DOMAIN barangays : barangays[b].psgc_code # request.barangay

OnOnePath(l) ==
  /\ listings[l].barangay \in DOMAIN barangays
  /\ listings[l].municipality = barangays[listings[l].barangay].municipality
  /\ listings[l].province = municipalities[listings[l].municipality].province

\* C11: a base-set listing stored with province P1, municipality M1 and
\* barangay B1 on one path is returned by the province-scope query (P1) and
\* by the municipality-scope query (P1, M1), and is not returned by the
\* municipality-scope query (P1, M2) for another municipality M2 of P1; in
\* general a listing whose province is P is returned at province scope P and
\* a listing whose municipality is M is returned at municipality scope
\* (P, M), whatever narrower fields it carries.
C11_CoarseningMonotone ==
  Answered("listings") =>
    \A l \in ListingBaseSet :
      /\ ScopeLevel = "province" =>
           \A P \in ResolvedProvinces :
             listings[l].province = P => l \in response.results
      /\ ScopeLevel = "municipality" =>
           \A s \in ResolvedMunicipalities :
             /\ listings[l].municipality = s[2] => l \in response.results
             /\ ( /\ OnOnePath(l)
                  /\ listings[l].province = s[1]
                  /\ listings[l].municipality # s[2] ) => l \notin response.results

\* A municipality-scope listing request answered with a listing stored down
\* to a barangay of that municipality.
C11_Witness ==
  /\ Answered("listings") /\ ScopeLevel = "municipality"
  /\ \E s \in ResolvedMunicipalities : \E l \in response.results :
       /\ OnOnePath(l)
       /\ listings[l].municipality = s[2]
       /\ listings[l].province = s[1]

\* C13: every record a request returns is a record of the base set: a
\* returned listing exists, has status 'active' and a price within the price
\* range of the request; a returned announcement exists, has is_active true
\* and, unless the request asks for expired ones, is not expired.
C13_OnlyNarrows ==
  /\ Answered("listings") =>
       /\ response.results \subseteq ListingBaseSet
       /\ \A l \in response.results :
            /\ l \in DOMAIN listings
            /\ listings[l].status = "active"
            /\ request.min_price = "2" => \E price \in listings[l].price : price >= 2
            /\ request.max_price = "1" => \E price \in listings[l].price : price <= 1
  /\ Answered("announcements") =>
       /\ response.results \subseteq AnnouncementBaseSet
       /\ \A a \in response.results :
            /\ a \in DOMAIN announcements
            /\ announcements[a].is_active
            /\ request.include_expired = ABSENT => ~Expired(a)

\* A listing request with a province code and a price bound, answered with a
\* listing.
C13_Witness ==
  /\ Answered("listings")
  /\ ScopeLevel = "province"
  /\ request.max_price = "1"
  /\ response.results # {}

\* The answered request with its barangay code removed.
WithoutBarangay == [request EXCEPT !.barangay = ABSENT]

\* C14: for listings and for announcements, a request that carries a
\* barangay code but lacks the province code or the municipality code is
\* answered as the same request without the barangay code is; no record is
\* selected by the barangay code alone.
C14_BarangayNeedsCoarser ==
  ( /\ request # NoRequest
    /\ Supplied(request.barangay)
    /\ ~(Supplied(request.province) /\ Supplied(request.municipality)) ) =>
      /\ Answered("listings") => response = ListingGetQueryset(WithoutBarangay)
      /\ Answered("announcements") => response = AnnouncementGetQueryset(WithoutBarangay)

\* A listing request with a province code and the code of a barangay but no
\* municipality code, answered with a listing of another barangay.
C14_Witness ==
  /\ Answered("listings")
  /\ Supplied(request.province) /\ ~Supplied(request.municipality)
  /\ \E b \in DOMAIN barangays :
       /\ barangays[b].psgc_code = request.barangay
       /\ \E l \in response.results :
            listings[l].barangay # NULL /\ listings[l].barangay # b

\* The answered request carries a municipality code and no province code.
MunicipalityWithoutProvince ==
  Supplied(request.municipality) /\ ~Supplied(request.province)

C20_ExpiryBoundary ==
  (Answered("announcements") /\ request.include_expired = ABSENT) =>
    \A a \in DOMAIN announcements :
      (announcements[a].is_active /\ LocationRule(a)) =>
        /\ a \notin response.results <=>
             ( /\ announcements[a].expiry_date # NoValue
               /\ \A d \in announcements[a].expiry_date : d < today )
        /\ announcements[a].expiry_date = NoValue => a \in response.results
        /\ (\E d \in announcements[a].expiry_date : d >= today) => a \in response.results

\* A request made without include_expired answered with an announcement that
\* expires today.
C20_Witness ==
  /\ Answered("announcements")
  /\ request.include_expired = ABSENT
  /\ \E a \in response.results : announcements[a].expiry_date = Value(today)

(***************************************************************************)
(* Repeated requests                                                       *)
(***************************************************************************)

Handles(views) == request'.view \in views

\* C16: through the listing API, an update or a delete of a listing asked by
\* an authenticated user with a verified e-mail address who is neither its
\* seller nor a moderator is refused and leaves the table of listings as it
\* was; an update or a delete changes the table only when the seller of the
\* listing asks for it.
C16_OwnerOnly ==
  [][ Handles({"listing_partial_update", "listing_destroy"}) =>
        /\ ( /\ request'.pk \in DOMAIN listings
             /\ IsAuthenticated(request'.user)
             /\ UserRows[request'.user].email_verified
             /\ UserRows[request'.user].province_moderator = NoValue
             /\ listings[request'.pk].seller # request'.user ) =>
               /\ response'.status \in {403, 404}
               /\ listings' = listings
        /\ listings' # listings =>
             /\ request'.pk \in DOMAIN listings
             /\ listings[request'.pk].seller = request'.user ]_vars

\* The user's active moderator assignment covers the record of the table:
\* the record exists and its province is the assigned province.
InJurisdiction(user, table, pk) ==
  /\ pk \in DOMAIN table
  /\ \E assignment \in UserRows[user].province_moderator :
       assignment.is_active /\ table[pk].province = assignment.province

\* C17: a moderator's status change or delete of a listing or of an
\* announcement changes the table only when the caller holds an active
\* moderator assignment and the province of the record is the assigned
\* province; for every other caller or record (no assignment, an inactive
\* assignment, a record of another province or of no province) the request
\* is refused and the table is left as it was.
C17_ModeratorJurisdiction ==
  [][ /\ Handles({"mod_listing_update_status", "mod_listing_delete"}) =>
           /\ listings' # listings =>
                InJurisdiction(request'.user, listings, request'.pk)
           /\ ~InJurisdiction(request'.user, listings, request'.pk) =>
                /\ response'.status \in {401, 403, 404}
                /\ listings' = listings
      /\ Handles({"mod_announcement_update_status", "mod_announcement_delete"}) =>
           /\ announcements' # announcements =>
                InJurisdiction(request'.user, announcements, request'.pk)
           /\ ~InJurisdiction(request'.user, announcements, request'.pk) =>
                /\ response'.status \in {401, 403, 404}
                /\ announcements' = announcements ]_vars

\* An active moderator of one province asked to delete a listing of another
\* province, was refused, and the listing is still there.
C17_Witness ==
  /\ request.view = "mod_listing_delete"
  /\ IsProvinceModerator(request.user)
  /\ request.pk \in DOMAIN listings
  /\ listings[request.pk].province = "P2"
  /\ response.status = 404

\* The table after the step differs from the table before it in the given
\* fields of the row pk at most.
OnlyFieldsChanged(before, after, pk, fields) ==
  /\ DOMAIN after = DOMAIN before
  /\ \A k \in DOMAIN before :
       \A f \in DOMAIN before[k] :
         (k # pk \/ f \notin fields) => after[k][f] = before[k][f]

C19_HierarchyIntegrity ==
  /\ \A m \in DOMAIN municipalities :
       Cardinality({p \in DOMAIN provinces : municipalities[m].province = p}) = 1
  /\ \A b \in DOMAIN barangays :
       Cardinality({m \in DOMAIN municipalities : barangays[b].municipality = m}) = 1

\* The first province has been deleted, and with it its municipalities and
\* their barangays, while another province is left.
C19_Witness ==
  /\ ProvinceGet("112300000") = {}
  /\ ProvinceGet("118200000") # {}
  /\ MunicipalityGetByCode("112314000") = {}
  /\ BarangayGetByCode("112314001") = {}

(***************************************************************************)
(* Parent-scoped lookup and ancestor inclusion                             *)
(***************************************************************************)

\* The municipality code of the answered request is carried by a
\* municipality of another province than the one its province code names, or
\* its barangay code by a barangay of another municipality than the one its
\* municipality code names within that province.
CodeOfAnotherParent ==
  \/ /\ ScopeLevel \in {"municipality", "barangay"}
     /\ \E P \in ResolvedProvinces : \E m \in DOMAIN municipalities :
          /\ municipalities[m].psgc_code = request.municipality
          /\ municipalities[m].province # P
  \/ /\ ScopeLevel = "barangay"
     /\ \E s \in ResolvedMunicipalities : \E b \in DOMAIN barangays :
          /\ barangays[b].psgc_code = request.barangay
          /\ barangays[b].municipality # s[2]

\* C21: for listings and for announcements, a request at municipality or
\* barangay scope whose municipality code exists in the directory under
\* another province than the one named, or whose barangay code exists under
\* another municipality than the one named, is answered with the empty set.
C21_ParentScopedLookup ==
  (request # NoRequest /\ CodeOfAnotherParent) =>
    response = [status |-> 200, results |-> {}]

\* A request that names a municipality under a province it does not belong
\* to, answered with the empty set although the store holds an active record
\* of that municipality.
C21_Witness ==
  /\ request # NoRequest
  /\ ScopeLevel = "municipality"
  /\ CodeOfAnotherParent
  /\ response = [status |-> 200, results |-> {}]
  /\ \E m \in DOMAIN municipalities :
       /\ municipalities[m].psgc_code = request.municipality
       /\ \/ \E l \in ListingBaseSet : listings[l].municipality = m
          \/ \E a \in DOMAIN announcements :
               announcements[a].is_active /\ announcements[a].municipality = m

\* The level of the most specific location field of the listing that is not
\* null, and the row that field names.
MostSpecificLevel(l) ==
  IF listings[l].barangay # NULL THEN "barangay"
  ELSE IF listings[l].municipality # NULL THEN "municipality"
  ELSE IF listings[l].province # NULL THEN "province"
  ELSE "none"

MostSpecific(l) ==
  IF listings[l].barangay # NULL THEN listings[l].barangay
  ELSE IF listings[l].municipality # NULL THEN listings[l].municipality
  ELSE listings[l].province

\* C22: at every resolvable listing scope, a base-set listing whose most
\* specific non-null location field is at the level of the query or coarser
\* and names the row the query resolves to at that level is in the result,
\* whatever else the listing carries.
C22_AncestorInclusion ==
  Answered("listings") =>
    \A l \in ListingBaseSet :
      /\ ScopeLevel = "province" =>
           \A P \in ResolvedProvinces :
             (MostSpecificLevel(l) = "province" /\ MostSpecific(l) = P)
               => l \in response.results
      /\ ScopeLevel = "municipality" =>
           \A s \in ResolvedMunicipalities :
             ( \/ MostSpecificLevel(l) = "municipality" /\ MostSpecific(l) = s[2]
               \/ MostSpecificLevel(l) = "province" /\ MostSpecific(l) = s[1] )
               => l \in response.results
      /\ ScopeLevel = "barangay" =>
           \A s \in ResolvedBarangays :
             ( \/ MostSpecificLevel(l) = "barangay" /\ MostSpecific(l) = s[3]
               \/ MostSpecificLevel(l) = "municipality" /\ MostSpecific(l) = s[2]
               \/ MostSpecificLevel(l) = "province" /\ MostSpecific(l) = s[1] )
               => l \in response.results

\* A barangay-scope listing request answered with a listing whose most
\* specific field is the municipality of the query and whose province is
\* null.
C22_Witness ==
  /\ Answered("listings") /\ ScopeLevel = "barangay"
  /\ \E s \in ResolvedBarangays : \E l \in response.results :
       /\ MostSpecificLevel(l) = "municipality"
       /\ MostSpecific(l) = s[2]
       /\ listings[l].province = NULL

(***************************************************************************)
(* Calls that run at once                                                  *)
(***************************************************************************)

\* The response to the request when its call runs alone on the store.
Alone(req) ==
  IF req.view = "listings" THEN ListingGetQueryset(req)
  ELSE AnnouncementGetQueryset(req)

StatusSet(pk, value) ==
  /\ pk \in DOMAIN listings
  /\ pk \in DOMAIN listings'
  /\ listings[pk].status # value
  /\ listings'[pk].status = value

\* No listing location query, at any scope, returns the listing.
ReturnedByNoQuery(pk) ==
  \A req \in ListingRequests : pk \notin ListingGetQueryset(req).results

\* A step keeps every listing in the store, and a listing it leaves with a
\* status other than 'active' is returned by no query.
HidesWithoutDeleting ==
  /\ DOMAIN listings' = DOMAIN listings
  /\ \A pk \in DOMAIN listings :
       (listings' # listings /\ listings'[pk].status # "active") =>
         ReturnedByNoQuery(pk)'

\* A step that sets the status of a listing to 'sold' answers a request of
\* the seller of the listing.
SoldBySellerOnly ==
  \A pk \in DOMAIN listings :
    StatusSet(pk, "sold") => request'.user = listings[pk].seller

\* C24: a request that sets the status of a listing keeps every listing in
\* the store; once the status of a listing is set to a value other than
\* 'active' the listing is returned by no listing location query at any
\* scope; and a request that sets the status of a listing to 'sold' comes
\* from the seller of the listing.
C24_StatusTransitions == [][HidesWithoutDeleting /\ SoldBySellerOnly]_vars

(***************************************************************************)
(* Expiry sweep                                                            *)
(***************************************************************************)

\* The step is a run of the unpublish command.
Swept == command' # command

\* The announcements that are active with an expiry_date before today.
ActiveExpired ==
  {a \in DOMAIN announcements : announcements[a].is_active /\ Expired(a)}

\* C25: a run of the unpublish command without --dry-run sets is_active to
\* false on exactly the announcements that were active with an expiry_date
\* before today; it deletes no announcement, changes no other announcement
\* and no other field, and leaves no announcement both active and expired; a
\* run with --dry-run changes nothing.
C25_SweepEffect ==
  [][ Swept =>
        /\ DOMAIN announcements' = DOMAIN announcements
        /\ <<provinces, municipalities, barangays, listings>>' =
             <<provinces, municipalities, barangays, listings>>
        /\ IF command'.dry_run
           THEN announcements' = announcements
           ELSE /\ \A a \in DOMAIN announcements :
                     announcements'[a] =
                       IF a \in ActiveExpired
                       THEN [announcements[a] EXCEPT !.is_active = FALSE]
                       ELSE announcements[a]
                /\ ActiveExpired' = {} ]_vars

\* A run without --dry-run has deactivated an announcement and left active
\* another one that expires today.
C25_Witness ==
  /\ command.name = "unpublish_expired_announcements"
  /\ ~command.dry_run
  /\ \E a \in command.found, b \in DOMAIN announcements :
       /\ ~announcements[a].is_active
       /\ announcements[b].is_active
       /\ announcements[b].expiry_date = Value(today)

(***************************************************************************)
(* Narrowing a query                                                       *)
(***************************************************************************)

\* The answered request without its municipality and barangay codes.
WithoutMunicipality ==
  [request EXCEPT !.municipality = ABSENT, !.barangay = ABSENT]

\* C26: for every store and every include_expired value, an announcement
\* request whose province, municipality and barangay codes resolve is
\* answered with a subset of the answer to the same request without the
\* barangay code, and an announcement request whose province and
\* municipality codes resolve with a subset of the answer to the same
\* request without the municipality code.
C26_AnnouncementNarrowing ==
  Answered("announcements") =>
    /\ (ScopeLevel = "barangay" /\ ResolvedBarangays # {}) =>
         /\ response.results \subseteq
              AnnouncementGetQueryset(WithoutBarangay).results
         /\ AnnouncementGetQueryset(WithoutBarangay).results \subseteq
              AnnouncementGetQueryset(WithoutMunicipality).results
    /\ (ScopeLevel = "municipality" /\ ResolvedMunicipalities # {}) =>
         response.results \subseteq
           AnnouncementGetQueryset(WithoutMunicipality).results

\* A barangay-scope request with resolved codes answered with an urgent
\* province-wide announcement of another municipality, which the wider
\* requests return too.
C26_Witness ==
  /\ Answered("announcements")
  /\ ScopeLevel = "barangay"
  /\ \E s \in ResolvedBarangays, a \in response.results :
       /\ announcements[a].is_province_wide
       /\ announcements[a].municipality # s[2]
       /\ a \in AnnouncementGetQueryset(WithoutBarangay).results
       /\ a \in AnnouncementGetQueryset(WithoutMunicipality).results

\* The stored locations are path-consistent: a listing with a municipality
\* has the province of that municipality, and a listing with a barangay has
\* the municipality of that barangay.
PathConsistent ==
  \A l \in DOMAIN listings :
    /\ listings[l].municipality # NULL =>
         /\ listings[l].municipality \in DOMAIN municipalities
         /\ listings[l].province = municipalities[listings[l].municipality].province
    /\ listings[l].barangay # NULL =>
         /\ listings[l].barangay \in DOMAIN barangays
         /\ listings[l].municipality = barangays[listings[l].barangay].municipality

\* C27: on a store whose listings are path-consistent, a listing request
\* whose province, municipality and barangay codes resolve is answered with
\* a subset of the answer to the same request without the barangay code,
\* and a listing request whose province and municipality codes resolve with
\* a subset of the answer to the same request without the municipality
\* code.
C27_ListingNarrowing ==
  (Answered("listings") /\ PathConsistent) =>
    /\ (ScopeLevel = "barangay" /\ ResolvedBarangays # {}) =>
         /\ response.results \subseteq ListingGetQueryset(WithoutBarangay).results
         /\ ListingGetQueryset(WithoutBarangay).results \subseteq
              ListingGetQueryset(WithoutMunicipality).results
    /\ (ScopeLevel = "municipality" /\ ResolvedMunicipalities # {}) =>
         response.results \subseteq ListingGetQueryset(WithoutMunicipality).results

\* On a path-consistent store, a barangay-scope request with resolved codes
\* answered with a listing of that barangay, which the wider requests
\* return too.
C27_Witness ==
  /\ Answered("listings")
  /\ PathConsistent
  /\ ScopeLevel = "barangay"
  /\ \E s \in ResolvedBarangays, l \in response.results :
       /\ listings[l].barangay = s[3]
       /\ l \in ListingGetQueryset(WithoutBarangay).results
       /\ l \in ListingGetQueryset(WithoutMunicipality).results

(***************************************************************************)
(* Expiry filtering and location filtering                                 *)
(***************************************************************************)

\* The answered request asks for the expired announcements too.
IncludesExpired == Lower(IncludeExpiredParam(request)) = "true"

\* The answered request with include_expired absent, and with
\* include_expired = true.
AsDefault == [request EXCEPT !.include_expired = ABSENT]

AsIncludeExpired == [request EXCEPT !.include_expired = "true"]

\* C28: for every store and every combination of location codes, the answer
\* to an announcement request without include_expired is the answer to the
\* same request with include_expired = true less exactly the announcements
\* whose expiry_date is before today, and so a subset of it.
C28_ExpiryIndependent ==
  Answered("announcements") =>
    /\ AnnouncementGetQueryset(AsDefault).status =
         AnnouncementGetQueryset(AsIncludeExpired).status
    /\ AnnouncementGetQueryset(AsDefault).results =
         {a \in AnnouncementGetQueryset(AsIncludeExpired).results : ~Expired(a)}
    /\ AnnouncementGetQueryset(AsDefault).results \subseteq
         AnnouncementGetQueryset(AsIncludeExpired).results
    /\ response = IF IncludesExpired THEN AnnouncementGetQueryset(AsIncludeExpired)
                  ELSE AnnouncementGetQueryset(AsDefault)

\* A default request with location codes answered without an expired
\* announcement that the same request with include_expired = true returns.
C28_Witness ==
  /\ Answered("announcements")
  /\ ~IncludesExpired
  /\ ScopeLevel = "barangay"
  /\ \E a \in AnnouncementGetQueryset(AsIncludeExpired).results :
       Expired(a) /\ a \notin response.results

(***************************************************************************)
(* The sweep and the queries                                               *)
(***************************************************************************)

\* The announcement requests without include_expired = true.
DefaultRequests ==
  {req \in AnnouncementRequests : Lower(IncludeExpiredParam(req)) # "true"}

\* C29: a run of the unpublish command leaves the answer to every
\* announcement request without include_expired, at every scope, as it was
\* before the run; and from the run on, on that day and on the following
\* ones, an announcement that is not active is returned by no announcement
\* request, include_expired = true or not.
C29_SweepInvisible ==
  [][ \A req \in AnnouncementRequests :
        LET after == AnnouncementGetQueryset(req)'
        IN  /\ (Swept /\ req \in DefaultRequests) =>
                 after = AnnouncementGetQueryset(req)
            /\ \A a \in after.results : announcements'[a].is_active ]_vars

\* A run without --dry-run has deactivated an announcement, which a
\* province-scope request with include_expired = true no longer returns,
\* while it still returns another announcement.
C29_Witness ==
  /\ command.name = "unpublish_expired_announcements"
  /\ ~command.dry_run
  /\ \E a \in command.found, req \in AnnouncementRequests \ DefaultRequests :
       /\ ~announcements[a].is_active
       /\ Supplied(req.province) /\ ~Supplied(req.municipality)
       /\ a \notin AnnouncementGetQueryset(req).results
       /\ AnnouncementGetQueryset(req).results # {}

(***************************************************************************)
(* Deleting a location record                                              *)
(***************************************************************************)

\* The listing is returned by every barangay-scope request, with codes that
\* resolve, under the municipality, whose base set holds it.
ReturnedAtBarangayScopeUnder(l, M) ==
  \A req \in ListingRequests :
    ( /\ Supplied(req.province) /\ Supplied(req.municipality)
      /\ Supplied(req.barangay)
      /\ \E P \in ProvincesOf(req.province) :
           /\ M \in MunicipalitiesOf(req.municipality, P)
           /\ BarangaysOf(req.barangay, M) # {}
      /\ l \in PriceFiltered(ListingQueryset, req) ) =>
        l \in ListingGetQueryset(req).results

\* The listing is returned by every municipality-scope and every
\* barangay-scope request, with codes that resolve, under the province,
\* whose base set holds it.
ReturnedBelowProvince(l, P) ==
  \A req \in ListingRequests :
    ( /\ Supplied(req.province) /\ Supplied(req.municipality)
      /\ P \in ProvincesOf(req.province)
      /\ \E M \in MunicipalitiesOf(req.municipality, P) :
           Supplied(req.barangay) => BarangaysOf(req.barangay, M) # {}
      /\ l \in PriceFiltered(ListingQueryset, req) ) =>
        l \in ListingGetQueryset(req).results

\* The step deletes the barangay, or the municipality, the listing is tagged
\* to.
BarangayDeleted(l) ==
  /\ listings[l].barangay \in DOMAIN barangays
  /\ listings[l].barangay \notin DOMAIN barangays'

MunicipalityDeleted(l) ==
  /\ listings[l].municipality \in DOMAIN municipalities
  /\ listings[l].municipality \notin DOMAIN municipalities'

\* The step deletes the municipality of the barangay the listing is tagged
\* to.
MunicipalityOfBarangayDeleted(l) ==
  /\ listings[l].barangay \in DOMAIN barangays
  /\ barangays[listings[l].barangay].municipality \notin DOMAIN municipalities'

\* After the step the listing is in the store with no municipality and no
\* barangay, and is returned as province-wide below its province.
ProvinceWideAfter(l) ==
  /\ l \in DOMAIN listings'
  /\ listings'[l].municipality = NULL
  /\ listings'[l].barangay = NULL
  /\ listings'[l].province # NULL =>
       ReturnedBelowProvince(l, listings[l].province)'

\* After the step the listing is in the store with no barangay, and is
\* returned by every barangay-scope request under its municipality.
MunicipalityWideAfter(l) ==
  /\ l \in DOMAIN listings'
  /\ listings'[l].barangay = NULL
  /\ listings'[l].municipality # NULL =>
       ReturnedAtBarangayScopeUnder(l, listings[l].municipality)'

\* C30 (as stated): the delete of a barangay leaves each listing tagged to
\* it in the store with barangay null, returned by every barangay-scope
\* request under its municipality; the delete of a municipality leaves each
\* listing tagged to it, or to one of its barangays, with municipality and
\* barangay null, returned by every municipality-scope and barangay-scope
\* request under its province.
C30_AsStated ==
  [][ \A l \in DOMAIN listings :
        /\ BarangayDeleted(l) => MunicipalityWideAfter(l)
        /\ (MunicipalityDeleted(l) \/ MunicipalityOfBarangayDeleted(l)) =>
             ProvinceWideAfter(l) ]_vars

\* The listing is tagged to no municipality but the one the step deletes and
\* to no barangay but one of that municipality.
TaggedWithinDeleted(l) ==
  /\ MunicipalityDeleted(l) \/ MunicipalityOfBarangayDeleted(l)
  /\ listings[l].municipality = NULL \/ MunicipalityDeleted(l)
  /\ listings[l].barangay = NULL \/ MunicipalityOfBarangayDeleted(l)

\* C30: the delete of a barangay leaves each listing tagged to it in the
\* store with barangay null, returned by every barangay-scope request under
\* its municipality; the delete of a municipality leaves each listing tagged
\* to it or to one of its barangays, and to no other municipality or
\* barangay, with municipality and barangay null, returned by every
\* municipality-scope and barangay-scope request under its province.
C30_WidenedOnDelete ==
  [][ \A l \in DOMAIN listings :
        /\ BarangayDeleted(l) => MunicipalityWideAfter(l)
        /\ TaggedWithinDeleted(l) => ProvinceWideAfter(l) ]_vars

\* The second municipality has been deleted and a listing with its province
\* alone is returned by a barangay-scope request under the first
\* municipality.
C30_Witness ==
  /\ MunicipalityGetByCode("112302000") = {}
  /\ \E l \in DOMAIN listings :
       /\ listings[l].province = "P1"
       /\ listings[l].municipality = NULL
       /\ listings[l].barangay = NULL
       /\ l \in ListingGetQueryset(
                  [view |-> "listings", province |-> "112300000",
                   municipality |-> "112314000", barangay |-> "112314001",
                   min_price |-> ABSENT, max_price |-> ABSENT,
                   include_expired |-> ABSENT]).results

====
